---- MODULE Spec2Model ----
(***************************************************************************)
(* Job orchestration of the podcast generator (src/app.py): the job map,   *)
(* the submit handlers, the worker thread run_generation, its heartbeat    *)
(* thread update_progress and the status handler get_job_status.           *)
(*                                                                         *)
(* Every attribute read or write of a job is one step: the threads share   *)
(* the job objects without a lock, so another thread may run between any   *)
(* two statements.                                                         *)
(***************************************************************************)
EXTENDS Integers, Sequences, FiniteSets, TLC

(* ---- bounds ---- *)
MaxJobs == 1            \* jobs submitted in one run
MaxPolls == 1           \* status requests handled in one run
MaxLines == 3           \* lines of a dialogue script
MaxItems == 1           \* items fetched from the RSS feeds
MaxSections == 2        \* sections handed to mix_segments

JobIds == 1..MaxJobs

(* the ids uuid4 can draw: one more than the jobs of JobIds, so that an id
   exists that no submit of JobIds ever stores *)
Slots == 1..(MaxJobs + 1)

(* Python's None and a set value, as sequences of length 0 and 1 *)
None == <<>>
Some(x) == <<x>>
IsSet(o) == o # None

(* ---- inputs of the environment ---- *)
FileNames == {"notes.txt"}                  \* secure_filename(file.filename)
Times == {1700000000}                       \* int(time.time())
Timestamps == {"20240101-1200"}             \* time.strftime('%Y%m%d-%H%M')
ErrorTexts == {"quota exceeded", "no route to host"}     \* str(e)
ThreadErrorText == "can't start new thread"

(* f"{int(time.time())}_{filename}" under UPLOAD_FOLDER *)
StoredPath(t, filename) == <<"uploads", t, filename>>

(* GenerationJob.__init__ *)
GenerationJob(job_id) ==
    [id |-> job_id, status |-> "pending", progress |-> 0,
     message |-> "Initializing...", files |-> <<>>,
     result |-> None, error |-> None]

NoJob == [id |-> 0, status |-> "absent", progress |-> 0, message |-> "",
          files |-> <<>>, result |-> None, error |-> None]

(* progress_steps with two entries out of order *)
progress_steps_unordered ==
    << <<20, "Extracting text from files...">>,
       <<30, "Analyzing content...">>,
       <<60, "Creating voice audio...">>,
       <<40, "Generating script with AI...">>,
       <<80, "Mixing with background music...">>,
       <<90, "Uploading to platforms...">>,
       <<95, "Finalizing...">> >>

(* progress_steps of run_generation *)
progress_steps ==
    << <<20, "Extracting text from files...">>,
       <<30, "Analyzing content...">>,
       <<40, "Generating script with AI...">>,
       <<60, "Creating voice audio...">>,
       <<80, "Mixing with background music...">>,
       <<90, "Uploading to platforms...">>,
       <<95, "Finalizing...">> >>

(* the simulated result descriptor of run_generation *)
ResultDescriptor(ts) ==
    [episode_path |-> <<"episodes", ts, "demetri.xyz", ts, ".mp3">>,
     title |-> "Demetri.xyz",
     description |-> "AI-generated podcast episode",
     website_url |-> <<"https://demetri.xyz/podcast/", ts>>,
     rss_url |-> "https://demetri.xyz/feed.xml",
     twitter_url |-> "https://twitter.com/your_handle"]

(* f'Generation failed: {str(e)}' *)
FailureMessage(text) == "Generation failed: " \o text

EmptyResponse ==
    [code |-> 0, job_id |-> None, status |-> None, progress |-> None,
     message |-> None, result |-> None, error |-> None]

VARIABLES
    generation_jobs,    \* job id -> job object, NoJob where the id is not stored
    uploads,            \* the files that exist in UPLOAD_FOLDER
    wpc,                \* run_generation: position of each job's worker thread
    file_paths,         \* run_generation: the file_paths argument
    exc,                \* run_generation: the exception bound to e in the handler
    hpc,                \* update_progress: position of each job's heartbeat thread
    hidx,               \* update_progress: index of the loop over progress_steps
    ppc,                \* get_job_status: position of the request handler
    pjob,               \* get_job_status: the job_id of the request
    response,           \* get_job_status: the response dict being built
    polls,              \* status requests started so far
    held,               \* history: the (status, progress, message) triples each job has held
    spc,                \* upload_files / generate_from_rss: position of each submit handler
    script_text,        \* create_dialogue_audio: the script_text argument
    hosts,              \* CFG["hosts"]: the configured names of the two hosts
    sgpc,               \* create_dialogue_audio: position of the call
    segmented,          \* create_dialogue_audio: what separate_dialogue returned
    final_audio,        \* create_dialogue_audio: the audio assembled so far
    mpc,                \* main: position of each job's call of main
    scripts,            \* main: main_content, segs, outro and content_type
    epdir,              \* main: the episode directory, named by the minute main started
    work_files,         \* the files synthesis wrote that exist in the episode directories
    tts_todo,           \* main: the synthesis calls and unlinks the current step has yet to make
    tts_calls,          \* calls of elevenlabs_tts made for each job
    clips,              \* the clips those calls left on disk
    material,           \* history: whether the source material of the job had any text
    llm_failed,         \* history: whether a call of llm raised or gave no text
    audio_segments,     \* mix_segments: the audio_segments argument
    bed,                \* mix_segments: bed_path and the file at that path
    voice,              \* mix_segments: the voice track
    mix,                \* mix_segments: what the call returned or raised
    mxpc                \* mix_segments: position of the call

vars == <<generation_jobs, uploads, wpc, file_paths, exc, hpc, hidx,
          ppc, pjob, response, polls, held, spc,
          script_text, hosts, sgpc, segmented, final_audio,
          mpc, scripts, epdir, work_files, tts_todo, tts_calls, clips, material, llm_failed,
          audio_segments, bed, voice, mix, mxpc>>

jobVars == <<generation_jobs, held, uploads, wpc, file_paths, exc, hpc, hidx>>
pollVars == <<ppc, pjob, response, polls>>
(* the variables that neither the threads of a job nor the status handler write *)
segVars == <<script_text, hosts, sgpc, segmented, final_audio>>
mainVars == <<mpc, scripts, epdir, work_files, tts_todo, tts_calls, clips, material, llm_failed>>
mixVars == <<audio_segments, bed, voice, mix, mxpc>>
otherVars == <<segVars, mainVars, mixVars>>
restVars == <<spc, otherVars>>

(* ================= the dialogue segmenter (src/main.py) ================= *)

(* A text is a sequence of tokens.  A token is a host name, a word, or one of
   the characters ':' '>' '<' '*' ' ' and the newline. *)
NL == "\n"
Whitespace == {" ", NL}

MinOf(S) == CHOOSE x \in S : \A y \in S : x <= y
MaxOf(S) == CHOOSE x \in S : \A y \in S : x >= y

(* str.lstrip(chars), str.rstrip(chars), str.strip() *)
LStrip(text, chars) ==
    LET keep == {i \in 1..Len(text) : text[i] \notin chars}
    IN IF keep = {} THEN <<>> ELSE SubSeq(text, MinOf(keep), Len(text))

RStrip(text, chars) ==
    LET keep == {i \in 1..Len(text) : text[i] \notin chars}
    IN IF keep = {} THEN <<>> ELSE SubSeq(text, 1, MaxOf(keep))

Strip(text) == LStrip(RStrip(text, Whitespace), Whitespace)

(* str.startswith(prefix) *)
StartsWith(text, prefix) ==
    Len(text) >= Len(prefix) /\ SubSeq(text, 1, Len(prefix)) = prefix

(* sep in text *)
Contains(text, sep) == \E i \in 1..Len(text) : text[i] = sep

(* text.split(sep, 1)[1] *)
AfterFirst(text, sep) ==
    LET at == MinOf({i \in 1..Len(text) : text[i] = sep})
    IN SubSeq(text, at + 1, Len(text))

(* text.split(sep) *)
RECURSIVE Split(_, _)
Split(text, sep) ==
    IF Contains(text, sep)
      THEN LET at == MinOf({i \in 1..Len(text) : text[i] = sep})
           IN <<SubSeq(text, 1, at - 1)>> \o Split(SubSeq(text, at + 1, Len(text)), sep)
      ELSE <<text>>

(* sep.join(texts) *)
RECURSIVE JoinWith(_, _)
JoinWith(texts, sep) ==
    IF texts = <<>> THEN <<>>
    ELSE IF Len(texts) = 1 THEN texts[1]
    ELSE texts[1] \o <<sep>> \o JoinWith(Tail(texts), sep)

(* ' '.join(texts) *)
Join(texts) == JoinWith(texts, " ")

(* the state of the loop of separate_dialogue; h1_from, h2_from and
   current_from give, for each utterance, the line that opened its turn *)
SdStartWithSpeaker ==
    [host1_lines |-> <<>>, host2_lines |-> <<>>,
     current_speaker |-> Some("HOST1"), current_text |-> <<>>,
     h1_from |-> <<>>, h2_from |-> <<>>, current_from |-> 0,
     order |-> <<>>]

SdStart ==
    [host1_lines |-> <<>>, host2_lines |-> <<>>,
     current_speaker |-> None, current_text |-> <<>>,
     h1_from |-> <<>>, h2_from |-> <<>>, current_from |-> 0,
     order |-> <<>>]

(* if current_speaker and current_text: append ' '.join(current_text) to the
   list of current_speaker *)
SdFlush(st) ==
    IF IsSet(st.current_speaker) /\ st.current_text # <<>>
      THEN IF st.current_speaker = Some("HOST1")
             THEN [st EXCEPT !.host1_lines = Append(@, Join(st.current_text)),
                             !.h1_from = Append(@, st.current_from),
                             !.order = Append(@, <<"HOST1", Len(st.host1_lines) + 1>>)]
             ELSE [st EXCEPT !.host2_lines = Append(@, Join(st.current_text)),
                             !.h2_from = Append(@, st.current_from),
                             !.order = Append(@, <<"HOST2", Len(st.host2_lines) + 1>>)]
      ELSE st

(* for sep in [':', '>']: if sep in clean_line: current_text = [...]; break *)
SdTextAfterTag(st, clean_line) ==
    IF Contains(clean_line, ":")
      THEN [st EXCEPT !.current_text = <<Strip(AfterFirst(clean_line, ":"))>>]
    ELSE IF Contains(clean_line, ">")
      THEN [st EXCEPT !.current_text = <<Strip(AfterFirst(clean_line, ">"))>>]
    ELSE st

(* clean_line = line.lstrip('*<').rstrip('>').strip() *)
CleanLine(line) == Strip(RStrip(LStrip(line, {"*", "<"}), {">"}))

(* is_host1 / is_host2 *)
IsHost(clean_line, name, fallback) ==
    \/ StartsWith(clean_line, <<name, ":">>)
    \/ StartsWith(clean_line, <<name, ">">>)
    \/ StartsWith(clean_line, <<fallback, ":">>)
    \/ StartsWith(clean_line, <<fallback, ">">>)

(* SdLine without the 'if not line: continue' of blank lines *)
SdLineKeepsBlank(st, raw, i, cfg) ==
    LET line == Strip(raw)
        clean_line == CleanLine(line)
    IN IF IsHost(clean_line, cfg.primary, "HOST1")
         THEN SdTextAfterTag(
                  [SdFlush(st) EXCEPT !.current_speaker = Some("HOST1"),
                                      !.current_from = i],
                  clean_line)
       ELSE IF IsHost(clean_line, cfg.secondary, "HOST2")
         THEN SdTextAfterTag(
                  [SdFlush(st) EXCEPT !.current_speaker = Some("HOST2"),
                                      !.current_from = i],
                  clean_line)
       ELSE IF IsSet(st.current_speaker)
         THEN [st EXCEPT !.current_text = Append(@, line)]
       ELSE st

(* one iteration of the loop over the lines *)
SdLine(st, raw, i, cfg) ==
    LET line == Strip(raw)
        clean_line == CleanLine(line)
    IN IF line = <<>> THEN st
       ELSE IF IsHost(clean_line, cfg.primary, "HOST1")
         THEN SdTextAfterTag(
                  [SdFlush(st) EXCEPT !.current_speaker = Some("HOST1"),
                                      !.current_from = i],
                  clean_line)
       ELSE IF IsHost(clean_line, cfg.secondary, "HOST2")
         THEN SdTextAfterTag(
                  [SdFlush(st) EXCEPT !.current_speaker = Some("HOST2"),
                                      !.current_from = i],
                  clean_line)
       ELSE IF IsSet(st.current_speaker)
         THEN [st EXCEPT !.current_text = Append(@, line)]
       ELSE st

RECURSIVE SdLoop(_, _, _, _)
SdLoop(st, lines, i, cfg) ==
    IF i > Len(lines) THEN st
    ELSE SdLoop(SdLine(st, lines[i], i, cfg), lines, i + 1, cfg)

(* separate_dialogue(script_text) with the host names of the configuration *)
separate_dialogue(text, cfg) ==
    SdFlush(SdLoop(SdStart, Split(text, NL), 1, cfg))

(* the host names of config.yaml, or the defaults when it names none *)
HostConfigs ==
    { [primary |-> "HOST1", secondary |-> "HOST2"],
      [primary |-> "Alex", secondary |-> "Sam"] }

(* no call of create_dialogue_audio is in progress *)
NoDialogue ==
    /\ script_text = <<>>
    /\ hosts = [primary |-> "HOST1", secondary |-> "HOST2"]
    /\ sgpc = "idle"
    /\ segmented = SdStart
    /\ final_audio = <<>>

(* the locals of main before build_script_from_* returned *)
NoScripts == [main_content |-> None, segs |-> <<>>, outro |-> None, content_type |-> "none"]

(* no call of main is in progress *)
NoMain ==
    /\ mpc = [j \in Slots |-> "none"]
    /\ scripts = [j \in Slots |-> NoScripts]
    /\ epdir = [j \in Slots |-> None]
    /\ work_files = {}
    /\ tts_todo = [j \in Slots |-> <<>>]
    /\ tts_calls = [j \in Slots |-> 0]
    /\ clips = [j \in Slots |-> {}]
    /\ material = [j \in Slots |-> "unread"]
    /\ llm_failed = [j \in Slots |-> FALSE]

(* no bed_path is configured *)
NoBedPath == [path |-> FALSE, file |-> "missing", ms |-> 0]

(* no call of mix_segments is in progress *)
NoTrack == [audio |-> <<>>, normalized |-> FALSE, bed |-> None]
NoMix ==
    /\ audio_segments = <<>>
    /\ bed = NoBedPath
    /\ voice = NoTrack
    /\ mix = [error |-> None, track |-> None]
    /\ mxpc = "idle"

Triple(job) == <<job.status, job.progress, job.message>>

Stored(j) == generation_jobs[j] # NoJob

(* the service after start-up: no job, no thread, no request *)
Idle ==
    /\ generation_jobs = [j \in Slots |-> NoJob]
    /\ uploads = {}
    /\ wpc = [j \in Slots |-> "none"]
    /\ file_paths = [j \in Slots |-> None]
    /\ exc = [j \in Slots |-> None]
    /\ hpc = [j \in Slots |-> "none"]
    /\ hidx = [j \in Slots |-> 1]
    /\ ppc = "idle"
    /\ pjob = 0
    /\ response = EmptyResponse
    /\ polls = 0
    /\ spc = [j \in Slots |-> "none"]

Init ==
    /\ Idle
    /\ held = [j \in Slots |-> {}]
    /\ NoDialogue
    /\ NoMain
    /\ NoMix

(* ---- assignments to one attribute of one job ---- *)
(* a job object as it is after a write; the triple it now holds joins the
   history when the history is recorded *)
Store(j, job) ==
    /\ generation_jobs' = [generation_jobs EXCEPT ![j] = job]
    /\ held' = IF j \in DOMAIN held
                THEN [held EXCEPT ![j] = @ \cup {Triple(job)}]
                ELSE held

SetField(j, field, value) ==
    Store(j, [generation_jobs[j] EXCEPT ![field] = value])

(* ---- submit handlers ---- *)

(* upload_files when int(time.time()) is t: the request carries one allowed
   file; the job is stored and its worker thread is started *)
upload_at(j, t) ==
    /\ ~Stored(j)
    /\ \E filename \in FileNames :
         LET path == StoredPath(t, filename)
             job == [GenerationJob(j) EXCEPT
                        !.files = <<[original_name |-> filename, saved_path |-> path]>>]
         IN /\ uploads' = uploads \cup {path}
            /\ Store(j, job)
            /\ file_paths' = [file_paths EXCEPT ![j] = Some(<<path>>)]
    /\ wpc' = [wpc EXCEPT ![j] = "lookup"]
    /\ UNCHANGED <<exc, hpc, hidx, pollVars, restVars>>

(* upload_files at any time of the clock *)
upload_files(j) == \E t \in Times : upload_at(j, t)

(* generate_from_rss: no files, file_paths is None *)
generate_from_rss(j) ==
    /\ ~Stored(j)
    /\ Store(j, GenerationJob(j))
    /\ file_paths' = [file_paths EXCEPT ![j] = None]
    /\ wpc' = [wpc EXCEPT ![j] = "lookup"]
    /\ UNCHANGED <<uploads, exc, hpc, hidx, pollVars, restVars>>

(* ---- run_generation, the worker thread ---- *)

Goto(j, label) == wpc' = [wpc EXCEPT ![j] = label]

(* job = generation_jobs[job_id], outside the try block *)
W_Lookup(j) ==
    /\ wpc[j] = "lookup"
    /\ Goto(j, IF Stored(j) THEN "set_running" ELSE "crashed")
    /\ UNCHANGED <<generation_jobs, held, uploads, file_paths, exc, hpc, hidx, pollVars, restVars>>

(* W_SetRunning with the progress written together with the status *)
W_SetRunningAndProgress(j) ==
    /\ wpc[j] = "set_running"
    /\ Store(j, [generation_jobs[j] EXCEPT !.status = "running", !.progress = 10])
    /\ Goto(j, "set_progress")
    /\ UNCHANGED <<uploads, file_paths, exc, hpc, hidx, pollVars, restVars>>

(* job.status = 'running' *)
W_SetRunning(j) ==
    /\ wpc[j] = "set_running"
    /\ SetField(j, "status", "running")
    /\ Goto(j, "set_progress")
    /\ UNCHANGED <<uploads, file_paths, exc, hpc, hidx, pollVars, restVars>>

(* job.progress = 10 *)
W_SetProgress(j) ==
    /\ wpc[j] = "set_progress"
    /\ SetField(j, "progress", 10)
    /\ Goto(j, "set_message")
    /\ UNCHANGED <<uploads, file_paths, exc, hpc, hidx, pollVars, restVars>>

(* job.message = 'Starting podcast generation...' *)
W_SetMessage(j) ==
    /\ wpc[j] = "set_message"
    /\ SetField(j, "message", "Starting podcast generation...")
    /\ Goto(j, "start_heartbeat")
    /\ UNCHANGED <<uploads, file_paths, exc, hpc, hidx, pollVars, restVars>>

(* progress_thread.start(): the heartbeat starts, or the start raises *)
W_StartHeartbeat(j) ==
    /\ wpc[j] = "start_heartbeat"
    /\ \/ /\ hpc' = [hpc EXCEPT ![j] = "check"]
          /\ Goto(j, "generate")
          /\ UNCHANGED exc
       \/ /\ exc' = [exc EXCEPT ![j] = Some(ThreadErrorText)]
          /\ Goto(j, "except_status")
          /\ UNCHANGED hpc
    /\ UNCHANGED <<generation_jobs, held, uploads, file_paths, hidx, pollVars, restVars>>

(* W_Generate with a handler that does not catch the error *)
W_GenerateUncaught(j) ==
    /\ wpc[j] = "generate"
    /\ \/ /\ Goto(j, "set_result")
          /\ UNCHANGED exc
       \/ \E text \in ErrorTexts :
            /\ exc' = [exc EXCEPT ![j] = Some(text)]
            /\ Goto(j, "crashed")
    /\ UNCHANGED <<generation_jobs, held, uploads, file_paths, hpc, hidx, pollVars, restVars>>

(* result = generate_podcast(...): returns, or raises an error *)
W_Generate(j) ==
    /\ wpc[j] = "generate"
    /\ \/ /\ Goto(j, "set_result")
          /\ UNCHANGED exc
       \/ \E text \in ErrorTexts :
            /\ exc' = [exc EXCEPT ![j] = Some(text)]
            /\ Goto(j, "except_status")
    /\ UNCHANGED <<generation_jobs, held, uploads, file_paths, hpc, hidx, pollVars, restVars>>

(* job.result = {...} *)
W_SetResult(j) ==
    /\ wpc[j] = "set_result"
    /\ \E ts \in Timestamps : SetField(j, "result", Some(ResultDescriptor(ts)))
    /\ Goto(j, "set_completed")
    /\ UNCHANGED <<uploads, file_paths, exc, hpc, hidx, pollVars, restVars>>

(* W_SetCompleted with the status left as it is *)
W_SetCompletedSkipped(j) ==
    /\ wpc[j] = "set_completed"
    /\ SetField(j, "status", generation_jobs[j].status)
    /\ Goto(j, "set_progress_100")
    /\ UNCHANGED <<uploads, file_paths, exc, hpc, hidx, pollVars, restVars>>

(* job.status = 'completed' *)
W_SetCompleted(j) ==
    /\ wpc[j] = "set_completed"
    /\ SetField(j, "status", "completed")
    /\ Goto(j, "set_progress_100")
    /\ UNCHANGED <<uploads, file_paths, exc, hpc, hidx, pollVars, restVars>>

(* job.progress = 100 *)
W_SetProgress100(j) ==
    /\ wpc[j] = "set_progress_100"
    /\ SetField(j, "progress", 100)
    /\ Goto(j, "set_message_done")
    /\ UNCHANGED <<uploads, file_paths, exc, hpc, hidx, pollVars, restVars>>

(* job.message = 'Podcast generated successfully!' *)
W_SetMessageDone(j) ==
    /\ wpc[j] = "set_message_done"
    /\ SetField(j, "message", "Podcast generated successfully!")
    /\ Goto(j, "cleanup")
    /\ UNCHANGED <<uploads, file_paths, exc, hpc, hidx, pollVars, restVars>>

Range(s) == {s[i] : i \in DOMAIN s}

(* W_Cleanup with an error of unlink that is not swallowed and reaches the handler *)
W_CleanupRaises(j) ==
    /\ wpc[j] = "cleanup"
    /\ exc' = [exc EXCEPT ![j] = Some("unlink failed")]
    /\ Goto(j, "except_status")
    /\ UNCHANGED <<generation_jobs, held, uploads, file_paths, hpc, hidx, pollVars, restVars>>

(* if file_paths: unlink each path, ignoring every error of unlink *)
W_Cleanup(j) ==
    /\ wpc[j] = "cleanup"
    /\ uploads' = IF IsSet(file_paths[j]) /\ file_paths[j][1] # <<>>
                    THEN uploads \ Range(file_paths[j][1])
                    ELSE uploads
    /\ Goto(j, "done")
    /\ UNCHANGED <<generation_jobs, held, file_paths, exc, hpc, hidx, pollVars, restVars>>

(* W_ExceptStatus with the progress reset on failure *)
W_ExceptStatusResetsProgress(j) ==
    /\ wpc[j] = "except_status"
    /\ Store(j, [generation_jobs[j] EXCEPT !.status = "failed", !.progress = 0])
    /\ Goto(j, "except_error")
    /\ UNCHANGED <<uploads, file_paths, exc, hpc, hidx, pollVars, restVars>>

(* except Exception as e: job.status = 'failed' *)
W_ExceptStatus(j) ==
    /\ wpc[j] = "except_status"
    /\ SetField(j, "status", "failed")
    /\ Goto(j, "except_error")
    /\ UNCHANGED <<uploads, file_paths, exc, hpc, hidx, pollVars, restVars>>

(* job.error = str(e) *)
W_ExceptError(j) ==
    /\ wpc[j] = "except_error"
    /\ SetField(j, "error", Some(exc[j][1]))
    /\ Goto(j, "except_message")
    /\ UNCHANGED <<uploads, file_paths, exc, hpc, hidx, pollVars, restVars>>

(* job.message = f'Generation failed: {str(e)}' *)
W_ExceptMessage(j) ==
    /\ wpc[j] = "except_message"
    /\ SetField(j, "message", FailureMessage(exc[j][1]))
    /\ Goto(j, "done")
    /\ UNCHANGED <<uploads, file_paths, exc, hpc, hidx, pollVars, restVars>>

run_generation(j) ==
    \/ W_Lookup(j)
    \/ W_SetRunning(j)
    \/ W_SetProgress(j)
    \/ W_SetMessage(j)
    \/ W_StartHeartbeat(j)
    \/ W_Generate(j)
    \/ W_SetResult(j)
    \/ W_SetCompleted(j)
    \/ W_SetProgress100(j)
    \/ W_SetMessageDone(j)
    \/ W_Cleanup(j)
    \/ W_ExceptStatus(j)
    \/ W_ExceptError(j)
    \/ W_ExceptMessage(j)

(* ---- update_progress, the heartbeat thread ---- *)

(* for progress, message in progress_steps: if job.status != 'running': return *)
H_Check(j) ==
    /\ hpc[j] = "check"
    /\ hpc' = [hpc EXCEPT ![j] =
                 IF hidx[j] > Len(progress_steps) THEN "done"
                 ELSE IF generation_jobs[j].status # "running" THEN "done"
                 ELSE "set_progress"]
    /\ UNCHANGED <<generation_jobs, held, uploads, wpc, file_paths, exc, hidx, pollVars, restVars>>

(* H_SetProgress writing through a job object shared by all jobs *)
H_SetProgressShared(j) ==
    /\ hpc[j] = "set_progress"
    /\ generation_jobs' =
          [k \in Slots |->
             IF Stored(k)
               THEN [generation_jobs[k] EXCEPT !.progress = progress_steps[hidx[j]][1]]
               ELSE generation_jobs[k]]
    /\ hpc' = [hpc EXCEPT ![j] = "set_message"]
    /\ UNCHANGED <<held, uploads, wpc, file_paths, exc, hidx, pollVars, restVars>>

(* job.progress = progress *)
H_SetProgress(j) ==
    /\ hpc[j] = "set_progress"
    /\ SetField(j, "progress", progress_steps[hidx[j]][1])
    /\ hpc' = [hpc EXCEPT ![j] = "set_message"]
    /\ UNCHANGED <<uploads, wpc, file_paths, exc, hidx, pollVars, restVars>>

(* job.message = message; time.sleep(2); next iteration *)
H_SetMessage(j) ==
    /\ hpc[j] = "set_message"
    /\ SetField(j, "message", progress_steps[hidx[j]][2])
    /\ hidx' = [hidx EXCEPT ![j] = @ + 1]
    /\ hpc' = [hpc EXCEPT ![j] = "check"]
    /\ UNCHANGED <<uploads, wpc, file_paths, exc, pollVars, restVars>>

update_progress(j) ==
    \/ H_Check(j)
    \/ H_SetProgress(j)
    \/ H_SetMessage(j)

(* ---- get_job_status, the status request handler ---- *)

(* P_Lookup answering an unknown id like a failed job *)
P_LookupUnknownAsFailed ==
    /\ ppc \in {"idle", "returned"}
    /\ polls < MaxPolls
    /\ polls' = polls + 1
    /\ \E id \in Slots :
         /\ pjob' = id
         /\ IF Stored(id)
              THEN /\ response' = [EmptyResponse EXCEPT !.job_id = Some(id)]
                   /\ ppc' = "read_status"
              ELSE /\ response' = [EmptyResponse EXCEPT
                                     !.code = 200, !.job_id = Some(id),
                                     !.status = Some("failed"),
                                     !.error = Some("Job not found")]
                   /\ ppc' = "returned"
    /\ UNCHANGED <<jobVars, restVars>>

(* job = generation_jobs.get(job_id); if not job: 404 *)
P_Lookup ==
    /\ ppc \in {"idle", "returned"}
    /\ polls < MaxPolls
    /\ polls' = polls + 1
    /\ \E id \in Slots :
         /\ pjob' = id
         /\ IF Stored(id)
              THEN /\ response' = [EmptyResponse EXCEPT !.job_id = Some(id)]
                   /\ ppc' = "read_status"
              ELSE /\ response' = [EmptyResponse EXCEPT
                                     !.code = 404, !.error = Some("Job not found")]
                   /\ ppc' = "returned"
    /\ UNCHANGED <<jobVars, restVars>>

(* 'status': job.status *)
P_ReadStatus ==
    /\ ppc = "read_status"
    /\ response' = [response EXCEPT !.status = Some(generation_jobs[pjob].status)]
    /\ ppc' = "read_progress"
    /\ UNCHANGED <<jobVars, restVars, pjob, polls>>

(* 'progress': job.progress *)
P_ReadProgress ==
    /\ ppc = "read_progress"
    /\ response' = [response EXCEPT !.progress = Some(generation_jobs[pjob].progress)]
    /\ ppc' = "read_message"
    /\ UNCHANGED <<jobVars, restVars, pjob, polls>>

(* 'message': job.message *)
P_ReadMessage ==
    /\ ppc = "read_message"
    /\ response' = [response EXCEPT !.message = Some(generation_jobs[pjob].message)]
    /\ ppc' = "if_completed"
    /\ UNCHANGED <<jobVars, restVars, pjob, polls>>

(* if job.status == 'completed' and job.result: response['result'] = job.result *)
P_IfCompleted ==
    /\ ppc = "if_completed"
    /\ LET job == generation_jobs[pjob]
       IN IF job.status = "completed" /\ IsSet(job.result)
            THEN /\ response' = [response EXCEPT !.result = job.result, !.code = 200]
                 /\ ppc' = "returned"
            ELSE /\ response' = response
                 /\ ppc' = "elif_failed"
    /\ UNCHANGED <<jobVars, restVars, pjob, polls>>

(* elif job.status == 'failed' and job.error: response['error'] = job.error;
   return jsonify(response) *)
P_ElifFailed ==
    /\ ppc = "elif_failed"
    /\ LET job == generation_jobs[pjob]
       IN IF job.status = "failed" /\ IsSet(job.error) /\ job.error[1] # ""
            THEN response' = [response EXCEPT !.error = job.error, !.code = 200]
            ELSE response' = [response EXCEPT !.code = 200]
    /\ ppc' = "returned"
    /\ UNCHANGED <<jobVars, restVars, pjob, polls>>

get_job_status ==
    \/ P_Lookup
    \/ P_ReadStatus
    \/ P_ReadProgress
    \/ P_ReadMessage
    \/ P_IfCompleted
    \/ P_ElifFailed

(* ---- the submit handlers, statement by statement ---- *)

(* U_Store with the worker thread started before the job is stored *)
U_StartBeforeStore(j) ==
    /\ spc[j] = "none"
    /\ ~Stored(j)
    /\ wpc' = [wpc EXCEPT ![j] = "lookup"]
    /\ spc' = [spc EXCEPT ![j] = "start_thread"]
    /\ UNCHANGED <<generation_jobs, held, uploads, file_paths, exc, hpc, hidx, pollVars, otherVars>>

(* upload_files up to generation_jobs[job_id] = job: the job is created, the
   file is saved and recorded, the job is stored under its id *)
U_Store(j) ==
    /\ spc[j] = "none"
    /\ ~Stored(j)
    /\ \E t \in Times, filename \in FileNames :
         LET path == StoredPath(t, filename)
             job == [GenerationJob(j) EXCEPT
                        !.files = <<[original_name |-> filename, saved_path |-> path]>>]
         IN /\ uploads' = uploads \cup {path}
            /\ Store(j, job)
            /\ file_paths' = [file_paths EXCEPT ![j] = Some(<<path>>)]
    /\ spc' = [spc EXCEPT ![j] = "start_thread"]
    /\ UNCHANGED <<wpc, exc, hpc, hidx, pollVars, otherVars>>

(* generate_from_rss up to generation_jobs[job_id] = job *)
R_Store(j) ==
    /\ spc[j] = "none"
    /\ ~Stored(j)
    /\ Store(j, GenerationJob(j))
    /\ file_paths' = [file_paths EXCEPT ![j] = None]
    /\ spc' = [spc EXCEPT ![j] = "start_thread"]
    /\ UNCHANGED <<uploads, wpc, exc, hpc, hidx, pollVars, otherVars>>

(* thread.start(): the worker thread starts, or the start raises and the
   handler answers 500 *)
S_StartThread(j) ==
    /\ spc[j] = "start_thread"
    /\ \/ /\ wpc' = [wpc EXCEPT ![j] = "lookup"]
          /\ spc' = [spc EXCEPT ![j] = "return"]
       \/ /\ spc' = [spc EXCEPT ![j] = "error_500"]
          /\ UNCHANGED wpc
    /\ UNCHANGED <<generation_jobs, held, uploads, file_paths, exc, hpc, hidx, pollVars, otherVars>>

(* return jsonify({'job_id': job_id, ...}) *)
S_Return(j) ==
    /\ spc[j] = "return"
    /\ spc' = [spc EXCEPT ![j] = "returned"]
    /\ UNCHANGED <<jobVars, pollVars, otherVars>>

submit(j) ==
    \/ U_Store(j)
    \/ R_Store(j)
    \/ S_StartThread(j)
    \/ S_Return(j)

(* ---- create_dialogue_audio, statement by statement ---- *)

(* the lines a script may be made of *)
ScriptLines ==
    { <<"HOST1", ":", " ", "a">>,
      <<"HOST2", ":", " ", "b">>,
      <<"HOST1", ">">>,
      <<"HOST2", ">", " ", "b">>,
      <<"HOST2", ">", " ", "b", ":", "c">>,
      <<"HOST2", ":">>,
      <<"*", "*", "HOST1", ":", "*", "*", " ", "a">>,
      <<"Alex", ":", " ", "a">>,
      <<"c">>,
      <<" ">>,
      <<>> }

(* the scripts of at most MaxLines lines *)
Scripts ==
    { JoinWith(ls, NL) : ls \in UNION { [1..n -> ScriptLines] : n \in 0..MaxLines } }

(* the temp files of the non-blank lines of one host, named by the host and
   the index of the line *)
HostFiles(who, lines) ==
    LET idx == [i \in 1..Len(lines) |-> i]
        kept == SelectSeq(idx, LAMBDA i : Strip(lines[i]) # <<>>)
    IN [k \in 1..Len(kept) |-> <<who, kept[k] - 1>>]

Silent(ms) == <<"silent", ms>>

(* for i in range(max_segments): the clip of host1_files[i] and a silence,
   then the clip of host2_files[i] and a silence *)
RECURSIVE Interleave(_, _, _)
Interleave(host1_files, host2_files, i) ==
    IF i > Len(host1_files) /\ i > Len(host2_files) THEN <<>>
    ELSE (IF i <= Len(host1_files) THEN <<host1_files[i], Silent(500)>> ELSE <<>>)
         \o (IF i <= Len(host2_files) THEN <<host2_files[i], Silent(500)>> ELSE <<>>)
         \o Interleave(host1_files, host2_files, i + 1)

(* host1_lines, host2_lines = separate_dialogue(script_text) *)
SG_SeparateDialogue ==
    /\ sgpc = "ready"
    /\ segmented' = separate_dialogue(script_text, hosts)
    /\ sgpc' = "separated"
    /\ UNCHANGED <<jobVars, pollVars, spc, mainVars, mixVars, script_text, hosts, final_audio>>

(* the two synthesis loops and the assembly loop *)
SG_Assemble ==
    /\ sgpc = "separated"
    /\ final_audio' = Interleave(HostFiles("host1", segmented.host1_lines),
                                 HostFiles("host2", segmented.host2_lines), 1)
    /\ sgpc' = "assembled"
    /\ UNCHANGED <<jobVars, pollVars, spc, mainVars, mixVars, script_text, hosts, segmented>>

create_dialogue_audio ==
    \/ SG_SeparateDialogue
    \/ SG_Assemble

(* ---- main (generate_podcast), step by step ---- *)

(* a script as the language model writes it for two hosts *)
DialogueScript == <<"HOST1", ":", " ", "a", NL, "HOST2", ":", " ", "b">>

(* what a call of llm gives: it raises, or it returns None, '' or a script *)
LlmTexts == {None, Some(<<>>), Some(DialogueScript)}
LlmOutcomes ==
    {[raises |-> TRUE, text |-> None]} \cup {[raises |-> FALSE, text |-> t] : t \in LlmTexts}

(* the truth value of a str or None *)
Truthy(o) == IsSet(o) /\ o[1] # <<>>

(* the length in ms of a clip a provider synthesizes *)
ClipLengths == {2400}

(* what the two providers do on one call *)
TtsOutcomes == [primary : BOOLEAN, secondary : BOOLEAN, ms : ClipLengths]

ValueErrorText == "not enough values to unpack (expected 5, got 4)"
TypeErrorText == "data must be str, not NoneType"
NameErrorText == "name 'custom_outro' is not defined"
TtsErrorText == "text-to-speech failed"
FileNotFoundText == "[Errno 2] No such file or directory"

openai_tts_uncaught(o) ==
    IF o.secondary THEN [by |-> "openai", ms |-> o.ms]
    ELSE [by |-> "raised", ms |-> 0]

(* openai_tts: the clip of the secondary provider, or on any error a silent
   placeholder *)
openai_tts(o) ==
    IF o.secondary THEN [by |-> "openai", ms |-> o.ms]
    ELSE [by |-> "silent", ms |-> 1000]

(* elevenlabs_tts: the clip of the primary provider, or on any error what
   openai_tts leaves *)
elevenlabs_tts(o) ==
    IF o.primary THEN [by |-> "elevenlabs", ms |-> o.ms]
    ELSE openai_tts(o)

MainGoto(j, label) ==
    /\ mpc' = [mpc EXCEPT ![j] = label]
    /\ UNCHANGED <<wpc, exc>>

(* an exception leaves main and reaches the handler of run_generation *)
MainRaise(j, text) ==
    /\ mpc' = [mpc EXCEPT ![j] = "raised"]
    /\ exc' = [exc EXCEPT ![j] = Some(text)]
    /\ Goto(j, "except_status")

(* main returns None *)
MainReturn(j) ==
    /\ mpc' = [mpc EXCEPT ![j] = "returned"]
    /\ Goto(j, "set_result")
    /\ UNCHANGED exc

(* result = generate_podcast(file_paths) or generate_podcast(): main is entered *)
W_CallMain(j) ==
    /\ wpc[j] = "generate"
    /\ Goto(j, "in_main")
    /\ mpc' = [mpc EXCEPT ![j] = "build_script"]
    /\ \E ts \in Timestamps : epdir' = [epdir EXCEPT ![j] = Some(ts)]
    /\ UNCHANGED <<generation_jobs, held, uploads, file_paths, exc, hpc, hidx,
                   pollVars, spc, segVars, mixVars, work_files, scripts, tts_todo,
                   tts_calls, clips, material, llm_failed>>

(* the five locals of main unpacked from what llm gave *)
Unpacked(main_content, segs, outro, content_type) ==
    [main_content |-> main_content.text,
     segs |-> [k \in 1..Len(segs) |-> segs[k].text],
     outro |-> outro.text,
     content_type |-> content_type]

(* the calls of llm of one script: one raised, or the locals are set *)
BuildScript(j, calls, unpacked) ==
    IF \E k \in 1..Len(calls) : calls[k].raises
      THEN /\ \E text \in ErrorTexts : MainRaise(j, text)
           /\ llm_failed' = [llm_failed EXCEPT ![j] = TRUE]
           /\ UNCHANGED scripts
      ELSE /\ scripts' = [scripts EXCEPT ![j] = unpacked]
           /\ llm_failed' = [llm_failed EXCEPT ![j] =
                                \E k \in 1..Len(calls) : ~Truthy(calls[k].text)]
           /\ MainGoto(j, "check_content")

(* main_content, segs, outro, sources, metadata = build_script_from_files(...):
   with no text in any file the function returns four values *)
M_BuildScriptFromFiles(j) ==
    /\ wpc[j] = "in_main"
    /\ mpc[j] = "build_script"
    /\ IsSet(file_paths[j])
    /\ \E has_text \in BOOLEAN :
         IF ~has_text
           THEN /\ material' = [material EXCEPT ![j] = "empty"]
                /\ MainRaise(j, ValueErrorText)
                /\ UNCHANGED <<scripts, llm_failed>>
           ELSE /\ material' = [material EXCEPT ![j] = "text"]
                /\ \E seg \in LlmOutcomes, main_content \in LlmOutcomes, outro \in LlmOutcomes :
                     BuildScript(j, <<seg, main_content, outro>>,
                                 Unpacked(main_content, <<seg>>, outro, "files"))
    /\ UNCHANGED <<generation_jobs, held, uploads, file_paths, hpc, hidx,
                   pollVars, spc, segVars, mixVars, epdir, work_files, tts_todo, tts_calls, clips>>

(* items = fetch_recent_items(); ... = build_script_from_rss(items) *)
M_BuildScriptFromRss(j) ==
    /\ wpc[j] = "in_main"
    /\ mpc[j] = "build_script"
    /\ ~IsSet(file_paths[j])
    /\ \E n \in 0..MaxItems :
         /\ material' = [material EXCEPT ![j] = IF n = 0 THEN "empty" ELSE "text"]
         /\ \E summ \in [1..n -> LlmOutcomes], segs \in [1..n -> LlmOutcomes],
               outro \in LlmOutcomes, main_content \in LlmOutcomes :
              BuildScript(j, summ \o segs \o <<outro, main_content>>,
                          Unpacked(main_content, segs, outro, "rss"))
    /\ UNCHANGED <<generation_jobs, held, uploads, file_paths, hpc, hidx,
                   pollVars, spc, segVars, mixVars, epdir, work_files, tts_todo, tts_calls, clips>>

(* if not main_content: return *)
M_CheckContent(j) ==
    /\ wpc[j] = "in_main"
    /\ mpc[j] = "check_content"
    /\ IF Truthy(scripts[j].main_content)
         THEN MainGoto(j, "create_intro")
         ELSE MainReturn(j)
    /\ UNCHANGED <<generation_jobs, held, uploads, file_paths, hpc, hidx,
                   pollVars, spc, segVars, mixVars, epdir, work_files, scripts, tts_todo, tts_calls, clips, material, llm_failed>>

(* a file of the episode directory: the section it belongs to, the number of
   the segment, and for a dialogue the host and the index of the utterance *)
WorkFile(dir, section, n, host, i) ==
    [dir |-> dir, section |-> section, n |-> n, host |-> host, i |-> i]

Tts(file) == [op |-> "tts", file |-> file]
Load(file) == [op |-> "load", file |-> file]
Unlink(file) == [op |-> "unlink", file |-> file]

(* custom_intro = create_custom_intro(metadata, epdir): one call of
   elevenlabs_tts for custom_intro_text and one for sign_on, where configured,
   each followed by from_mp3 of the file; the two files stay on disk *)
M_CreateIntro(j) ==
    /\ wpc[j] = "in_main"
    /\ mpc[j] = "create_intro"
    /\ \E custom_intro_text \in BOOLEAN, sign_on \in BOOLEAN :
         tts_todo' = [tts_todo EXCEPT ![j] =
             (IF custom_intro_text
                THEN <<Tts(WorkFile(epdir[j][1], "custom_intro", 0, "none", 0)),
                       Load(WorkFile(epdir[j][1], "custom_intro", 0, "none", 0))>> ELSE <<>>)
             \o (IF sign_on
                   THEN <<Tts(WorkFile(epdir[j][1], "sign_on", 0, "none", 0)),
                          Load(WorkFile(epdir[j][1], "sign_on", 0, "none", 0))>> ELSE <<>>)]
    /\ MainGoto(j, "intro_calls")
    /\ UNCHANGED <<generation_jobs, held, uploads, file_paths, hpc, hidx,
                   pollVars, spc, segVars, mixVars, epdir, work_files, scripts, tts_calls, clips, material, llm_failed>>

Synthesizing(j) == wpc[j] = "in_main" /\ mpc[j] \in {"intro_calls", "audio_calls"}

(* one call of elevenlabs_tts(text, voice_id, outpath): the clip is written
   to outpath *)
M_TtsCall(j) ==
    /\ Synthesizing(j)
    /\ tts_todo[j] # <<>>
    /\ Head(tts_todo[j]).op = "tts"
    /\ tts_calls' = [tts_calls EXCEPT ![j] = @ + 1]
    /\ \E o \in TtsOutcomes :
         LET clip == elevenlabs_tts(o)
         IN IF clip.by = "raised"
              THEN /\ MainRaise(j, TtsErrorText)
                   /\ UNCHANGED <<clips, tts_todo, work_files>>
              ELSE /\ clips' = [clips EXCEPT ![j] = @ \cup {clip}]
                   /\ work_files' = work_files \cup {Head(tts_todo[j]).file}
                   /\ tts_todo' = [tts_todo EXCEPT ![j] = Tail(@)]
                   /\ UNCHANGED <<mpc, wpc, exc>>
    /\ UNCHANGED <<generation_jobs, held, uploads, file_paths, hpc, hidx,
                   pollVars, spc, segVars, mixVars, epdir, scripts, material, llm_failed>>

(* AudioSegment.from_mp3(file): FileNotFoundError when the file is not there *)
M_Load(j) ==
    /\ Synthesizing(j)
    /\ tts_todo[j] # <<>>
    /\ Head(tts_todo[j]).op = "load"
    /\ IF Head(tts_todo[j]).file \in work_files
         THEN /\ tts_todo' = [tts_todo EXCEPT ![j] = Tail(@)]
              /\ UNCHANGED <<mpc, wpc, exc>>
         ELSE /\ MainRaise(j, FileNotFoundText)
              /\ UNCHANGED tts_todo
    /\ UNCHANGED <<generation_jobs, held, uploads, file_paths, hpc, hidx,
                   pollVars, spc, segVars, mixVars, epdir, work_files, scripts, tts_calls, clips, material, llm_failed>>

(* f.unlink(), for a temp file of create_dialogue_audio: FileNotFoundError
   when the file is not there *)
M_Unlink(j) ==
    /\ Synthesizing(j)
    /\ tts_todo[j] # <<>>
    /\ Head(tts_todo[j]).op = "unlink"
    /\ IF Head(tts_todo[j]).file \in work_files
         THEN /\ work_files' = work_files \ {Head(tts_todo[j]).file}
              /\ tts_todo' = [tts_todo EXCEPT ![j] = Tail(@)]
              /\ UNCHANGED <<mpc, wpc, exc>>
         ELSE /\ MainRaise(j, FileNotFoundText)
              /\ UNCHANGED <<work_files, tts_todo>>
    /\ UNCHANGED <<generation_jobs, held, uploads, file_paths, hpc, hidx,
                   pollVars, spc, segVars, mixVars, epdir, scripts, tts_calls, clips, material, llm_failed>>

(* the calls of the step are made: create_custom_intro returns, or the audio
   of the last section is loaded *)
M_TtsDone(j) ==
    /\ Synthesizing(j)
    /\ tts_todo[j] = <<>>
    /\ MainGoto(j, IF mpc[j] = "intro_calls" THEN "write_scripts" ELSE "mix")
    /\ UNCHANGED <<generation_jobs, held, uploads, file_paths, hpc, hidx,
                   pollVars, spc, segVars, mixVars, epdir, work_files, scripts, tts_todo, tts_calls, clips, material, llm_failed>>

(* write_text of main_content, of every segment and of outro: write_text(None)
   raises TypeError *)
M_WriteScripts(j) ==
    /\ wpc[j] = "in_main"
    /\ mpc[j] = "write_scripts"
    /\ IF \/ ~IsSet(scripts[j].outro)
          \/ \E k \in 1..Len(scripts[j].segs) : ~IsSet(scripts[j].segs[k])
         THEN MainRaise(j, TypeErrorText)
         ELSE MainGoto(j, "audio")
    /\ UNCHANGED <<generation_jobs, held, uploads, file_paths, hpc, hidx,
                   pollVars, spc, segVars, mixVars, epdir, work_files, scripts, tts_todo, tts_calls, clips, material, llm_failed>>

(* for i in range(max_segments): the files from_mp3 reads, host1_files[i]
   then host2_files[i] *)
RECURSIVE PlayOrder(_, _, _)
PlayOrder(host1_files, host2_files, i) ==
    IF i > Len(host1_files) /\ i > Len(host2_files) THEN <<>>
    ELSE (IF i <= Len(host1_files) THEN <<host1_files[i]>> ELSE <<>>)
         \o (IF i <= Len(host2_files) THEN <<host2_files[i]>> ELSE <<>>)
         \o PlayOrder(host1_files, host2_files, i + 1)

(* create_dialogue_audio(script, segment_name, epdir): a call of
   elevenlabs_tts into a temp file for every non-blank utterance, host1 first,
   then from_mp3 of the files in playing order, and after the assembly the
   unlink of every temp file, host1 first *)
DialogueOps(script, dir, section, n) ==
    LET sd == separate_dialogue(script[1], hosts)
        made == HostFiles("host1", sd.host1_lines) \o HostFiles("host2", sd.host2_lines)
        files == [k \in 1..Len(made) |-> WorkFile(dir, section, n, made[k][1], made[k][2])]
        host1_files == [k \in 1..Len(HostFiles("host1", sd.host1_lines)) |-> files[k]]
        host2_files == [k \in 1..Len(HostFiles("host2", sd.host2_lines)) |->
                           files[Len(host1_files) + k]]
        played == PlayOrder(host1_files, host2_files, 1)
    IN [k \in 1..Len(files) |-> Tts(files[k])]
       \o [k \in 1..Len(played) |-> Load(played[k])]
       \o [k \in 1..Len(files) |-> Unlink(files[k])]

(* for i, s in enumerate(segs, 1): create_dialogue_audio(s, f"seg{i}", epdir) *)
RECURSIVE SegmentOps(_, _, _)
SegmentOps(segs, dir, i) ==
    IF i > Len(segs) THEN <<>>
    ELSE DialogueOps(segs[i], dir, "seg", i) \o SegmentOps(segs, dir, i + 1)

(* the single-voice branch: main.mp3, seg{i}.mp3 and outro.mp3 are written
   and loaded, and stay on disk *)
SingleVoiceOps(segs, dir) ==
    LET files == <<WorkFile(dir, "main", 0, "none", 0)>>
                 \o [i \in 1..Len(segs) |-> WorkFile(dir, "seg", i, "none", 0)]
                 \o <<WorkFile(dir, "outro", 0, "none", 0)>>
    IN [k \in 1..(2 * Len(files)) |->
           IF k % 2 = 1 THEN Tts(files[(k + 1) \div 2]) ELSE Load(files[k \div 2])]

(* the audio of main_content, of the segments and of outro: as dialogues when
   the content is from files and both voices are configured, else one call of
   elevenlabs_tts for each text *)
M_Audio(j) ==
    /\ wpc[j] = "in_main"
    /\ mpc[j] = "audio"
    /\ \E voices \in BOOLEAN :
         tts_todo' = [tts_todo EXCEPT ![j] =
                        IF scripts[j].content_type = "files" /\ voices
                          THEN DialogueOps(scripts[j].main_content, epdir[j][1], "main", 0)
                               \o SegmentOps(scripts[j].segs, epdir[j][1], 1)
                               \o DialogueOps(scripts[j].outro, epdir[j][1], "outro", 0)
                          ELSE SingleVoiceOps(scripts[j].segs, epdir[j][1])]
    /\ MainGoto(j, "audio_calls")
    /\ UNCHANGED <<generation_jobs, held, uploads, file_paths, hpc, hidx,
                   pollVars, spc, segVars, mixVars, epdir, work_files, scripts, tts_calls, clips, material, llm_failed>>

(* all_segments = [custom_intro, main_audio] + seg_audios + [outro_audio,
   custom_outro]: the name custom_outro is bound nowhere, so the statement
   raises NameError and nothing after it in main runs *)
M_Mix(j) ==
    /\ wpc[j] = "in_main"
    /\ mpc[j] = "mix"
    /\ MainRaise(j, NameErrorText)
    /\ UNCHANGED <<generation_jobs, held, uploads, file_paths, hpc, hidx,
                   pollVars, spc, segVars, mixVars, epdir, work_files, scripts, tts_todo, tts_calls, clips, material, llm_failed>>

generate_podcast(j) ==
    \/ M_BuildScriptFromFiles(j)
    \/ M_BuildScriptFromRss(j)
    \/ M_CheckContent(j)
    \/ M_CreateIntro(j)
    \/ M_TtsCall(j)
    \/ M_Load(j)
    \/ M_Unlink(j)
    \/ M_TtsDone(j)
    \/ M_WriteScripts(j)
    \/ M_Audio(j)
    \/ M_Mix(j)

(* run_generation with the call of generate_podcast followed into main *)
run_generation_main(j) ==
    \/ W_Lookup(j)
    \/ W_SetRunning(j)
    \/ W_SetProgress(j)
    \/ W_SetMessage(j)
    \/ W_StartHeartbeat(j)
    \/ W_CallMain(j)
    \/ generate_podcast(j)
    \/ W_SetResult(j)
    \/ W_SetCompleted(j)
    \/ W_SetProgress100(j)
    \/ W_SetMessageDone(j)
    \/ W_Cleanup(j)
    \/ W_ExceptStatus(j)
    \/ W_ExceptError(j)
    \/ W_ExceptMessage(j)

(* ---- mix_segments ---- *)

(* an audio is a sequence of pieces, each a clip or a silence with its length
   in ms; len(audio) is the sum of the lengths *)
Clip(ms) == <<"clip", ms>>

RECURSIVE Duration(_)
Duration(audio) ==
    IF audio = <<>> THEN 0 ELSE Head(audio)[2] + Duration(Tail(audio))

(* the sections main may hand to mix_segments: an empty custom intro, a
   custom intro of two texts, a single-voice section, dialogue sections *)
SectionAudios ==
    { <<>>,
      <<Clip(2400), Silent(500), Clip(1000)>>,
      <<Clip(2400)>>,
      Interleave(<<Clip(2400)>>, <<Clip(1000)>>, 1),
      Interleave(<<Clip(2400), Clip(1000)>>, <<Clip(2400)>>, 1) }

(* bed_path and the file at that path: no path configured; a path with no
   file; a file that cannot be decoded; a bed track of some length *)
Beds ==
    { NoBedPath,
      [path |-> TRUE, file |-> "missing", ms |-> 0],
      [path |-> TRUE, file |-> "unreadable", ms |-> 0] }
    \cup { [path |-> TRUE, file |-> "audio", ms |-> l] : l \in {0, 1000, 7000} }

(* voice += segment + AudioSegment.silent(300), for every segment *)
RECURSIVE VoiceOf(_)
VoiceOf(segments) ==
    IF segments = <<>> THEN <<>>
    ELSE Head(segments) \o <<Silent(300)>> \o VoiceOf(Tail(segments))

(* normalize(track): the gain changes, the length does not *)
normalize(track) == [track EXCEPT !.normalized = TRUE]

(* if bed_path and Path(bed_path).exists() *)
BedExists(b) == b.path /\ b.file # "missing"

(* loops = (len(voice) // len(bed)) + 1 *)
Loops(voice_ms, bed_ms) == (voice_ms \div bed_ms) + 1

(* (bed * loops)[:len(voice)] - 18: the length of the looped bed, the length
   after the cut and the gain *)
BedFull(voice_ms, bed_ms) ==
    LET looped == bed_ms * Loops(voice_ms, bed_ms)
    IN [looped |-> looped,
        cut |-> IF looped < voice_ms THEN looped ELSE voice_ms,
        gain |-> 0 - 18]

bed_mix_unchecked(track, b) ==
    IF ~b.path
      THEN [error |-> None, track |-> Some(track)]
    ELSE IF b.file # "audio"
      THEN [error |-> Some("could not decode the bed file"), track |-> None]
    ELSE IF b.ms = 0
      THEN [error |-> Some("integer division or modulo by zero"), track |-> None]
    ELSE [error |-> None,
          track |-> Some(normalize([track EXCEPT !.normalized = FALSE,
                               !.bed = Some(BedFull(Duration(track.audio), b.ms))]))]

(* the second half of mix_segments: without a bed file the voice track is
   returned; AudioSegment.from_file raises on a file it cannot decode; a bed
   of length 0 makes the division raise; else the voice overlaid with the
   looped, cut and attenuated bed, normalized: overlay keeps the length of
   the voice *)
bed_mix(track, b) ==
    IF ~BedExists(b)
      THEN [error |-> None, track |-> Some(track)]
    ELSE IF b.file = "unreadable"
      THEN [error |-> Some("could not decode the bed file"), track |-> None]
    ELSE IF b.ms = 0
      THEN [error |-> Some("integer division or modulo by zero"), track |-> None]
    ELSE [error |-> None,
          track |-> Some(normalize([track EXCEPT !.normalized = FALSE,
                               !.bed = Some(BedFull(Duration(track.audio), b.ms))]))]

(* voice = silent(0); for segment in audio_segments: voice += ...; voice =
   normalize(voice) *)
MX_Voice ==
    /\ mxpc = "ready"
    /\ voice' = normalize([NoTrack EXCEPT !.audio = VoiceOf(audio_segments)])
    /\ mxpc' = "voiced"
    /\ UNCHANGED <<jobVars, pollVars, spc, segVars, mainVars, audio_segments, bed, mix>>

(* if bed_path and Path(bed_path).exists(): ... return normalize(mix);
   return voice *)
MX_Bed ==
    /\ mxpc = "voiced"
    /\ mix' = bed_mix(voice, bed)
    /\ mxpc' = "mixed"
    /\ UNCHANGED <<jobVars, pollVars, spc, segVars, mainVars, audio_segments, bed, voice>>

mix_segments ==
    \/ MX_Voice
    \/ MX_Bed

(* ---- the system ---- *)

(* the submit handlers, the workers and the heartbeats *)
NextJobs ==
    \/ \E j \in JobIds : upload_files(j)
    \/ \E j \in JobIds : generate_from_rss(j)
    \/ \E j \in JobIds : run_generation(j)
    \/ \E j \in JobIds : update_progress(j)

Next ==
    \/ NextJobs
    \/ get_job_status

(* the whole service; the history of each job's triples is recorded *)
Spec == Init /\ [][Next]_vars

(* the jobs without status requests; no history is recorded *)
InitJobs ==
    /\ Idle
    /\ held = <<>>
    /\ NoDialogue
    /\ NoMain
    /\ NoMix

SpecJobs == InitJobs /\ [][NextJobs]_vars

(* the submit handlers statement by statement, the workers and the status
   requests; the heartbeats do not run and no history is recorded *)
NextSubmit ==
    \/ \E j \in JobIds : submit(j)
    \/ \E j \in JobIds : run_generation(j)
    \/ get_job_status

SpecSubmit == InitJobs /\ [][NextSubmit]_vars

(* the jobs of every slot, so that two jobs are in flight; no status requests *)
NextPair ==
    \/ \E j \in Slots : upload_files(j)
    \/ \E j \in Slots : generate_from_rss(j)
    \/ \E j \in Slots : run_generation(j)
    \/ \E j \in Slots : update_progress(j)

SpecPair == InitJobs /\ [][NextPair]_vars

(* one call of create_dialogue_audio on any script, under any configuration *)
InitSegment ==
    /\ Idle
    /\ held = <<>>
    /\ script_text \in Scripts
    /\ hosts \in HostConfigs
    /\ sgpc = "ready"
    /\ segmented = SdStart
    /\ final_audio = <<>>
    /\ NoMain
    /\ NoMix

NextSegment == create_dialogue_audio

SpecSegment == InitSegment /\ [][NextSegment]_vars

(* the job a run of the pipeline follows *)
FirstJob == MinOf(JobIds)

(* one job with generate_podcast followed into main: jobs share no state, so
   one is followed; the heartbeats do not run and there are no status requests *)
NextPipeline ==
    \/ upload_files(FirstJob)
    \/ generate_from_rss(FirstJob)
    \/ run_generation_main(FirstJob)

SpecPipeline == InitJobs /\ [][NextPipeline]_vars

(* one call of mix_segments on any list of sections, with any bed *)
InitMix ==
    /\ Idle
    /\ held = <<>>
    /\ NoDialogue
    /\ NoMain
    /\ audio_segments \in UNION { [1..n -> SectionAudios] : n \in 1..MaxSections }
    /\ bed \in Beds
    /\ voice = NoTrack
    /\ mix = [error |-> None, track |-> None]
    /\ mxpc = "ready"

NextMix == mix_segments

SpecMix == InitMix /\ [][NextMix]_vars

(* two seconds of the clock, so that two uploads fall in the same second or
   in different ones *)
ClockTimes == Times \cup {t + 1 : t \in Times}

(* uploads to every slot at either second and their workers: two jobs hold
   files at the same time; no heartbeats, no status requests *)
NextFiles ==
    \/ \E j \in Slots, t \in ClockTimes : upload_at(j, t)
    \/ \E j \in Slots : run_generation(j)

SpecFiles == InitJobs /\ [][NextFiles]_vars

(* two consecutive values of the minute main reads, so that two runs fall in
   the same minute or in different ones *)
Minutes == Timestamps \cup {"20240101-1201"}

(* the job of an upload at second t whose worker is in main, the scripts
   written by llm: main content, one segment and outro, each a dialogue *)
InMain(j, t) ==
    LET filename == CHOOSE f \in FileNames : TRUE
    IN [GenerationJob(j) EXCEPT
           !.status = "running",
           !.progress = 10,
           !.message = "Starting podcast generation...",
           !.files = <<[original_name |-> filename, saved_path |-> StoredPath(t, filename)]>>]

(* every slot holds a job uploaded in a second of its own; the workers have
   entered main, in the same minute or not; main has its scripts, has made
   the custom intro, for which no text is configured, has written the scripts
   and is about to make the audio of the sections *)
InitShared ==
    /\ generation_jobs = [j \in Slots |-> InMain(j, MinOf(Times) + j - 1)]
    /\ uploads = {generation_jobs[j].files[1].saved_path : j \in Slots}
    /\ file_paths = [j \in Slots |-> Some(<<generation_jobs[j].files[1].saved_path>>)]
    /\ wpc = [j \in Slots |-> "in_main"]
    /\ exc = [j \in Slots |-> None]
    /\ hpc = [j \in Slots |-> "check"]
    /\ hidx = [j \in Slots |-> 1]
    /\ ppc = "idle"
    /\ pjob = 0
    /\ response = EmptyResponse
    /\ polls = 0
    /\ spc = [j \in Slots |-> "none"]
    /\ held = <<>>
    /\ NoDialogue
    /\ NoMix
    /\ mpc = [j \in Slots |-> "audio"]
    /\ scripts = [j \in Slots |->
                     [main_content |-> Some(DialogueScript),
                      segs |-> <<Some(DialogueScript)>>,
                      outro |-> Some(DialogueScript),
                      content_type |-> "files"]]
    /\ epdir \in [Slots -> {Some(ts) : ts \in Minutes}]
    /\ work_files = {}
    /\ tts_todo = [j \in Slots |-> <<>>]
    /\ tts_calls = [j \in Slots |-> 0]
    /\ clips = [j \in Slots |-> {}]
    /\ material = [j \in Slots |-> "text"]
    /\ llm_failed = [j \in Slots |-> FALSE]

(* the runs of main of all the jobs from the audio of the sections on,
   interleaved statement by statement, and the handler of run_generation *)
NextShared ==
    \E j \in Slots :
        \/ M_TtsCall(j)
        \/ M_Load(j)
        \/ M_Unlink(j)
        \/ M_TtsDone(j)
        \/ M_Audio(j)
        \/ M_Mix(j)
        \/ W_ExceptStatus(j)
        \/ W_ExceptError(j)
        \/ W_ExceptMessage(j)

SpecShared == InitShared /\ [][NextShared]_vars

(* the submit handlers statement by statement, the workers and the
   heartbeats; a started worker thread that can take a step eventually takes
   one, and so does a started heartbeat thread *)
NextLive ==
    \/ \E j \in JobIds : submit(j)
    \/ \E j \in JobIds : run_generation(j)
    \/ \E j \in JobIds : update_progress(j)

Fairness ==
    \A j \in JobIds : WF_vars(run_generation(j)) /\ WF_vars(update_progress(j))

SpecLive == InitJobs /\ [][NextLive]_vars /\ Fairness

(* ======================= properties ======================= *)

Job(j) == generation_jobs[j]
Terminal(j) == Job(j).status \in {"completed", "failed"}
WorkerFinished(j) == wpc[j] = "done"
HeartbeatFinished(j) == hpc[j] \in {"none", "done"}
InHandler(j) == wpc[j] \in {"except_status", "except_error", "except_message"}
HandlerStep(j) == InHandler(j) /\ wpc'[j] # wpc[j]
HeartbeatWrite(j) == hpc[j] \in {"set_progress", "set_message"} /\ hpc'[j] # hpc[j]

(* C1: a job's status only moves (created ->) pending -> running -> completed
   or failed: no step changes the status of a completed or failed job, none
   takes a pending job to a terminal status, none takes a job back to pending *)
C1_StatusOrder ==
    [][\A j \in JobIds :
          Job(j)'.status # Job(j).status =>
              <<Job(j).status, Job(j)'.status>> \in
                  {<<"absent", "pending">>, <<"pending", "running">>,
                   <<"running", "completed">>, <<"running", "failed">>}]_vars

(* C1 witness: a job is terminal while its heartbeat is still about to write *)
C1_Witness ==
    \E j \in JobIds : Terminal(j) /\ hpc[j] = "set_progress" /\ wpc[j] = "cleanup"

(* C2: in every state in which a job is completed or failed exactly one of
   result and error is set: result for completed, error for failed *)
C2_ExactlyOneOfResultError ==
    \A j \in JobIds :
        /\ Job(j).status = "completed" => IsSet(Job(j).result) /\ ~IsSet(Job(j).error)
        /\ Job(j).status = "failed" => IsSet(Job(j).error) /\ ~IsSet(Job(j).result)

(* C3: after a successful run, once the worker and the heartbeat have both
   finished, the job is completed with progress 100 *)
C3_SuccessEndsAt100 ==
    \A j \in JobIds :
        (WorkerFinished(j) /\ HeartbeatFinished(j) /\ ~IsSet(exc[j])) =>
            (Job(j).status = "completed" /\ Job(j).progress = 100)

(* C4: the heartbeat writes progress or message only in a state in which the
   job's status is running *)
C4_HeartbeatWritesOnlyWhileRunning ==
    [][\A j \in JobIds : HeartbeatWrite(j) => Job(j).status = "running"]_vars

(* C5: the (status, progress, message) triple of every status response is a
   triple the job held at one single moment *)
C5_ResponseIsSnapshot ==
    (ppc = "returned" /\ response.code = 200) =>
        <<response.status[1], response.progress[1], response.message[1]>> \in held[pjob]

(* C6: a response includes a result only if the status it reports is
   completed, and an error only if the status it reports is failed *)
C6_ResultAndErrorMatchStatus ==
    (ppc = "returned" /\ response.code = 200) =>
        /\ IsSet(response.result) => response.status = Some("completed")
        /\ IsSet(response.error) => response.status = Some("failed")

(* C7: while a job's status is running, every write to its progress, by the
   worker or by the heartbeat, leaves progress at least its previous value *)
C7_ProgressMonotoneWhileRunning ==
    [][\A j \in JobIds :
          Job(j).status = "running" => Job(j)'.progress >= Job(j).progress]_vars

(* C7 witness: a running job whose heartbeat has written its last step *)
C7_Witness ==
    \E j \in JobIds : Job(j).status = "running" /\ Job(j).progress = 95

(* C8: in the first state in which a job's status is running, its progress is 0 *)
C8_RunningStartsAtZero ==
    [][\A j \in JobIds :
          (Job(j).status = "pending" /\ Job(j)'.status = "running") =>
              Job(j)'.progress = 0]_vars

(* C8 witness: the worker has just moved the job to running *)
C8_Witness ==
    \E j \in JobIds : wpc[j] = "set_progress" /\ Job(j).status = "running"

(* C9: an error raised inside the worker never leaves the worker thread, and
   the job ends failed with error set to the error's text *)
C9_ErrorsCaught ==
    \A j \in JobIds :
        /\ wpc[j] # "crashed"
        /\ (IsSet(exc[j]) /\ WorkerFinished(j)) =>
               (Job(j).status = "failed" /\ Job(j).error = exc[j])

(* C9 witness: a worker has finished after generate_podcast raised *)
C9_Witness ==
    \E j \in JobIds : WorkerFinished(j) /\ exc[j] = Some("quota exceeded")

(* C10 as claimed: the failure transition leaves progress and message as they
   were and result unset *)
C10_FailureKeepsProgressAndMessage ==
    [][\A j \in JobIds :
          HandlerStep(j) =>
              /\ Job(j)'.progress = Job(j).progress
              /\ Job(j)'.message = Job(j).message
              /\ Job(j)'.result = None]_vars

(* C10 amended: the worker's failure handler writes only status, error and
   message, the message being 'Generation failed: ' and the error's text; no
   step of the handler changes progress or files, and result stays unset *)
C10_FailureWritesStatusErrorMessage ==
    [][\A j \in JobIds :
          HandlerStep(j) =>
              /\ Job(j)'.progress = Job(j).progress
              /\ Job(j)'.files = Job(j).files
              /\ Job(j)'.result = None
              /\ Job(j)'.message # Job(j).message =>
                     Job(j)'.message = FailureMessage(exc[j][1])]_vars

(* C10 witness: the handler has finished and the message is the failure message *)
C10_Witness ==
    \E j \in JobIds :
        /\ WorkerFinished(j) /\ IsSet(exc[j])
        /\ Job(j).message = FailureMessage(exc[j][1])
        /\ Job(j).progress > 0

(* a status request performs its lookup in this step *)
LookupStep == ppc \in {"idle", "returned"} /\ polls' # polls

(* C11: submit stores the new job, pending, before its worker is started, and
   returns the id without waiting for the worker; the job is never removed,
   so a later status request for a returned id finds it and the worker's own
   lookup never fails *)
C11_SubmitStoresThenStarts ==
    /\ [](\A j \in JobIds :
            /\ wpc[j] # "none" => Stored(j)
            /\ spc[j] \in {"return", "returned"} => Stored(j)
            /\ spc[j] = "return" => ENABLED S_Return(j)
            /\ wpc[j] # "crashed")
    /\ [][/\ \A j \in JobIds :
               /\ (~Stored(j) /\ Stored(j)') =>
                      (Job(j)'.status = "pending" /\ wpc'[j] = "none")
               /\ Stored(j) => Stored(j)'
          /\ (LookupStep /\ spc[pjob'] = "returned") =>
                 (response'.code # 404 /\ response'.job_id = Some(pjob'))]_vars

(* C11 witness: the id has been returned and a status request has found the
   job while the worker has not run its first statement *)
C11_Witness ==
    \E j \in JobIds :
        /\ spc[j] = "returned" /\ wpc[j] = "lookup"
        /\ ppc = "returned" /\ pjob = j /\ response.code = 200

(* C12: a status request for an id that no submit has stored answers 404
   'Job not found', with no status, in every state *)
C12_UnknownIdNotFound ==
    [][(LookupStep /\ spc[pjob'] = "none") =>
          /\ ppc' = "returned"
          /\ response' = [EmptyResponse EXCEPT
                            !.code = 404, !.error = Some("Job not found")]
          /\ response'.status \notin
                 {Some("pending"), Some("running"), Some("completed"), Some("failed")}]_vars

(* C12 witness: an id outside the submitted ones was answered 404 while a job failed *)
C12_Witness ==
    /\ ppc = "returned" /\ response.code = 404 /\ pjob \notin JobIds
    /\ \E j \in JobIds : Job(j).status = "failed"

(* C13: a step of one job's submit handler, worker or heartbeat leaves every
   field of every other job's record unchanged *)
C13_JobsIndependent ==
    [][\A j \in Slots, k \in Slots :
          (j # k /\ (wpc'[j] # wpc[j] \/ hpc'[j] # hpc[j])) =>
              generation_jobs'[k] = generation_jobs[k]]_vars

(* C13 witness: two jobs are running with their heartbeats at different steps *)
C13_Witness ==
    \E j \in Slots, k \in Slots :
        /\ j # k
        /\ Job(j).status = "running" /\ Job(k).status = "running"
        /\ Job(j).progress = 20 /\ Job(k).progress = 40

(* ---- the dialogue segmenter and the section assembler ---- *)

Separated == sgpc \in {"separated", "assembled"}

(* the speaker whose tag opens a turn on this line of the script, "none" when
   the line opens no turn: after the surrounding blanks and the leading '*'
   and '<' are stripped, the line begins with a tag followed by ':' or '>' *)
TaggedSpeaker(raw) ==
    LET l == Strip(LStrip(Strip(raw), {"*", "<"}))
    IN IF Len(l) >= 2 /\ l[2] \in {":", ">"} /\ l[1] \in {hosts.primary, "HOST1"}
         THEN "HOST1"
       ELSE IF Len(l) >= 2 /\ l[2] \in {":", ">"} /\ l[1] \in {hosts.secondary, "HOST2"}
         THEN "HOST2"
       ELSE "none"

(* the lines of the script that open a turn of this speaker, in script order *)
TurnLines(who) ==
    LET lines == Split(script_text, NL)
        idx == [i \in 1..Len(lines) |-> i]
    IN SelectSeq(idx, LAMBDA i : TaggedSpeaker(lines[i]) = who)

NoTag ==
    LET lines == Split(script_text, NL)
    IN \A i \in 1..Len(lines) : TaggedSpeaker(lines[i]) = "none"

(* C18: for a script with N tagged turns, segmentation returns exactly N
   utterances, each attributed to the speaker whose tag opened its turn, each
   speaker's utterances in the order of that speaker's turns: the utterances
   of each speaker come, one for one and in order, from the lines that open
   that speaker's turns *)
C18_OneUtterancePerTurn ==
    Separated =>
        /\ segmented.h1_from = TurnLines("HOST1")
        /\ segmented.h2_from = TurnLines("HOST2")

(* the clips of the assembled section, in the order they play *)
Played == SelectSeq(final_audio, LAMBDA piece : piece[1] # "silent")

(* the clips in the order in which the segmenter closed their turns *)
ClipOf(turn) == <<IF turn[1] = "HOST1" THEN "host1" ELSE "host2", turn[2] - 1>>

InTurnOrder ==
    LET turn_clips == [k \in 1..Len(segmented.order) |-> ClipOf(segmented.order[k])]
    IN SelectSeq(turn_clips, LAMBDA c : \E k \in 1..Len(final_audio) : final_audio[k] = c)

(* C19: the assembled section plays the utterance clips in the order in which
   their turns appear in the script, whatever the pattern of turns *)
C19_PlaysInTurnOrder ==
    sgpc = "assembled" => Played = InTurnOrder

(* C20: segmenting a text with no recognized speaker tag returns an empty
   utterance list for both speakers and raises no error, the empty text
   included: the call always returns, and returns two empty lists *)
C20_NoTagNoUtterances ==
    /\ []((Separated /\ NoTag) =>
              (segmented.host1_lines = <<>> /\ segmented.host2_lines = <<>>))
    /\ [][(sgpc = "ready" /\ NoTag) =>
              /\ sgpc' = "separated"
              /\ segmented'.host1_lines = <<>>
              /\ segmented'.host2_lines = <<>>]_vars

C20_Witness ==
    /\ Separated
    /\ NoTag
    /\ Contains(script_text, "c")
    /\ Contains(script_text, "Alex")
    /\ segmented.host1_lines = <<>>
    /\ segmented.host2_lines = <<>>


(* ---- the pipeline of main ---- *)

(* no collaborator of the job failed: the source material had text, every
   call of llm gave text and every clip came from the primary provider *)
AllCollaboratorsSucceeded(j) ==
    /\ material[j] = "text"
    /\ ~llm_failed[j]
    /\ \A c \in clips[j] : c.by = "elevenlabs"

(* C14: a job whose script generation, synthesis, mixing and export steps all
   succeed (no collaborator fails) ends in status completed *)
C14_SuccessEndsCompleted ==
    \A j \in JobIds :
        (WorkerFinished(j) /\ AllCollaboratorsSucceeded(j)) =>
            Job(j).status = "completed"

(* C15: if script generation fails for a job (llm raises or yields no script
   text), the job ends failed with an error and never ends completed *)
C15_ScriptFailureEndsFailed ==
    \A j \in JobIds :
        (WorkerFinished(j) /\ llm_failed[j]) =>
            (Job(j).status = "failed" /\ IsSet(Job(j).error))

(* C16: a job submitted with empty source material (no text in any uploaded
   file, or no feed items) ends failed, and no text-to-speech call is made for
   it before it fails *)
C16_EmptySourceFailsBeforeSynthesis ==
    \A j \in JobIds :
        material[j] = "empty" =>
            /\ tts_calls[j] = 0
            /\ WorkerFinished(j) => Job(j).status = "failed"

(* C17: if both providers fail for an utterance, synthesis raises no error and
   leaves a silent placeholder clip of exactly 1 second (1000 ms), and the
   failure alone does not make the job fail: every step that makes
   text-to-speech calls raises nothing and goes on to the next step of main,
   and no job fails with a text-to-speech error *)
C17_BothProvidersFailPlaceholder ==
    /\ [](\A j \in JobIds :
            /\ \A c \in clips[j] :
                 /\ c.by \in {"elevenlabs", "openai", "silent"}
                 /\ c.by = "silent" => c.ms = 1000
            /\ exc[j] # Some(TtsErrorText)
            /\ Job(j).error # Some(TtsErrorText))
    /\ [][\A j \in JobIds :
            tts_calls'[j] # tts_calls[j] =>
                /\ exc'[j] = exc[j]
                /\ wpc'[j] = "in_main"
                /\ mpc'[j] = mpc[j]
                /\ tts_todo'[j] = Tail(tts_todo[j])]_vars

(* C17 witness: main is past every synthesis step of a job for which both
   providers failed on every call *)
C17_Witness ==
    \E j \in JobIds :
        /\ wpc[j] = "in_main"
        /\ mpc[j] = "mix"
        /\ tts_calls[j] > 0
        /\ clips[j] = {[by |-> "silent", ms |-> 1000]}


(* ---- tag decoration and the text of a turn ---- *)

(* the line `**HOST1:** a` and the line `HOST1: a` *)
DecoratedLine == <<"*", "*", "HOST1", ":", "*", "*", " ", "a">>
PlainLine == <<"HOST1", ":", " ", "a">>

(* C21: tag matching is decoration-tolerant: the line `**HOST1:** hello` and
   the line `HOST1: hello` segment identically, giving the same speaker and
   the same utterance text *)
C21_DecorationTolerant ==
    (Separated /\ script_text = DecoratedLine) =>
        /\ segmented.host1_lines = separate_dialogue(PlainLine, hosts).host1_lines
        /\ segmented.host2_lines = separate_dialogue(PlainLine, hosts).host2_lines

(* the line is a turn line of the form `TAG: rest` or `TAG> rest` *)
PlainTurnLine(raw) ==
    LET l == Strip(raw)
    IN /\ Len(l) >= 2
       /\ l[1] \in {hosts.primary, hosts.secondary, "HOST1", "HOST2"}
       /\ l[2] \in {":", ">"}

(* the rest of a turn line, trimmed *)
RestOf(raw) ==
    LET l == Strip(raw)
    IN Strip(SubSeq(l, 3, Len(l)))

(* the non-blank lines, trimmed, that follow line i up to the next line on
   which the segmenter opened a turn *)
ContinuationsOf(i) ==
    LET lines == Split(script_text, NL)
        opened == {segmented.h1_from[k] : k \in 1..Len(segmented.h1_from)}
                      \cup {segmented.h2_from[k] : k \in 1..Len(segmented.h2_from)}
        later == {n \in opened : n > i}
        last == IF later = {} THEN Len(lines) ELSE MinOf(later) - 1
        idx == [n \in 1..(last - i) |-> i + n]
        kept == SelectSeq(idx, LAMBDA n : Strip(lines[n]) # <<>>)
    IN [n \in 1..Len(kept) |-> Strip(lines[kept[n]])]

WholeRestThenContinuations(utterances, from) ==
    LET lines == Split(script_text, NL)
    IN \A k \in 1..Len(utterances) :
           PlainTurnLine(lines[from[k]]) =>
               utterances[k] = Join(<<RestOf(lines[from[k]])>> \o ContinuationsOf(from[k]))

(* C30: for a turn line of the form `TAG: rest` or `TAG> rest` the utterance
   of that turn starts with the whole of rest, trimmed, whatever characters
   rest contains, further ':' and '>' included; the continuation lines are
   appended after it, joined by single spaces *)
C30_UtteranceIsWholeRest ==
    Separated =>
        /\ WholeRestThenContinuations(segmented.host1_lines, segmented.h1_from)
        /\ WholeRestThenContinuations(segmented.host2_lines, segmented.h2_from)

(* the lines of the script on which the segmenter opened a turn *)
OpenedTurns ==
    {segmented.h1_from[k] : k \in 1..Len(segmented.h1_from)}
        \cup {segmented.h2_from[k] : k \in 1..Len(segmented.h2_from)}

(* the lines of the script that begin with a tag and a separator once their
   leading '*' and '<' are stripped *)
TaggedLines ==
    LET lines == Split(script_text, NL)
    IN {i \in 1..Len(lines) : TaggedSpeaker(lines[i]) # "none"}

(* C31: a line opens a new turn exactly when, after its leading '*' and '<'
   are stripped, it begins with `TAG:` or `TAG>`, TAG being a configured
   display name or HOST1/HOST2; for both separators, and for a line that
   consists of the tag alone with its text on the following lines *)
C31_TurnOpensExactlyOnTag ==
    Separated => OpenedTurns = TaggedLines

(* the script without the lines that come before the first line on which the
   segmenter opened a turn, and without its blank lines *)
Pruned ==
    LET lines == Split(script_text, NL)
        first == IF OpenedTurns = {} THEN Len(lines) + 1 ELSE MinOf(OpenedTurns)
        idx == [n \in 1..(Len(lines) + 1 - first) |-> first - 1 + n]
        kept == SelectSeq(idx, LAMBDA n : Strip(lines[n]) # <<>>)
    IN JoinWith([n \in 1..Len(kept) |-> lines[kept[n]]], NL)

(* C32: text on lines that come before the first recognized tag appears in no
   utterance of either speaker, and blank lines never add anything to an
   utterance's text: the utterances are those of the script without these
   lines *)
C32_LeadingAndBlankLinesDropped ==
    Separated =>
        /\ segmented.host1_lines = separate_dialogue(Pruned, hosts).host1_lines
        /\ segmented.host2_lines = separate_dialogue(Pruned, hosts).host2_lines

C32_Witness ==
    LET lines == Split(script_text, NL)
    IN /\ Separated
       /\ OpenedTurns # {}
       /\ \E i \in 1..Len(lines) : i < MinOf(OpenedTurns) /\ Strip(lines[i]) # <<>>
       /\ \E i \in 1..Len(lines) : i > MinOf(OpenedTurns) /\ Strip(lines[i]) = <<>>
       /\ Len(segmented.host1_lines) + Len(segmented.host2_lines) = 1

(* ---- the mix ---- *)

Voiced == mxpc \in {"voiced", "mixed"}
Mixed == mxpc = "mixed"

(* the clips of an audio *)
ClipsOf(audio) == SelectSeq(audio, LAMBDA piece : piece[1] = "clip")

(* the gaps between two consecutive clips inside a section *)
GapsInside(section) ==
    IF Len(ClipsOf(section)) = 0 THEN 0 ELSE Len(ClipsOf(section)) - 1

RECURSIVE ClipTime(_)
ClipTime(sections) ==
    IF sections = <<>> THEN 0
    ELSE Duration(ClipsOf(Head(sections))) + ClipTime(Tail(sections))

RECURSIVE GapsInsideAll(_)
GapsInsideAll(sections) ==
    IF sections = <<>> THEN 0
    ELSE GapsInside(Head(sections)) + GapsInsideAll(Tail(sections))

(* C22: before bed mixing, the duration of the voice track is exactly the sum
   of the clip durations plus 500 ms for each gap between two consecutive
   clips inside a section plus 300 ms for each gap between two consecutive
   sections (sections minus 1 gaps) *)
C22_VoiceDurationIsClipsPlusGaps ==
    Voiced =>
        Duration(voice.audio) =
            ClipTime(audio_segments)
            + 500 * GapsInsideAll(audio_segments)
            + 300 * (Len(audio_segments) - 1)

(* C23: when a bed track is present, the looped bed is at least as long as the
   voice track, is cut to exactly the length of the voice track, and the final
   mix has exactly the duration of the voice track, for every length of the
   voice track and every length of the bed *)
C23_BedCoversVoice ==
    (Mixed /\ bed.path /\ bed.file = "audio") =>
        /\ ~IsSet(mix.error)
        /\ IsSet(mix.track)
        /\ IsSet(mix.track[1].bed)
        /\ mix.track[1].bed[1].looped >= Duration(voice.audio)
        /\ mix.track[1].bed[1].cut = Duration(voice.audio)
        /\ Duration(mix.track[1].audio) = Duration(voice.audio)

(* C24: with a bed path configured and no file at that path, mixing returns
   exactly the track it returns with no bed path configured, and raises no
   error *)
C24_MissingBedIsNoBed ==
    (Mixed /\ bed.path /\ bed.file = "missing") =>
        /\ ~IsSet(mix.error)
        /\ mix = bed_mix(normalize([NoTrack EXCEPT !.audio = VoiceOf(audio_segments)]),
                         NoBedPath)
        /\ mix.track = Some(voice)

C24_Witness ==
    /\ Mixed
    /\ bed.path
    /\ bed.file = "missing"
    /\ Len(audio_segments) = 2
    /\ mix.track = Some(voice)
    /\ voice.normalized
    /\ Duration(voice.audio) > 0

(* C25: a bed file that exists but cannot be read or decoded does not fail
   the job: bed mixing is skipped and the normalized voice-only track is
   returned *)
C25_UnreadableBedSkipped ==
    (Mixed /\ bed.path /\ bed.file = "unreadable") =>
        /\ ~IsSet(mix.error)
        /\ mix.track = Some(voice)
        /\ voice.normalized

(* ---- the uploaded files ---- *)

(* the stored paths of the files of a job *)
PathsOf(j) == IF IsSet(file_paths[j]) THEN Range(file_paths[j][1]) ELSE {}

(* generate_podcast has not yet returned or raised: it may still read the files *)
PipelineMayRead(j) ==
    wpc[j] \in {"lookup", "set_running", "set_progress", "set_message",
                "start_heartbeat", "generate"}

(* C26: a job's uploaded input files are deleted only after its generation
   pipeline has returned successfully: none is deleted while the pipeline may
   still read it, every one is deleted after a success (by the cleanup step),
   and none is deleted when the job fails *)
C26_FilesDeletedOnlyAfterSuccess ==
    /\ [](\A j \in Slots :
            /\ PipelineMayRead(j) => PathsOf(j) \subseteq uploads
            /\ (WorkerFinished(j) /\ Job(j).status = "failed") => PathsOf(j) \subseteq uploads)
    /\ [][\A j \in Slots :
            (wpc[j] = "cleanup" /\ wpc'[j] = "done") => PathsOf(j) \cap uploads' = {}]_vars

(* C27: no stored input file path belongs to two jobs: two uploads never get
   the same stored path, files of the same name uploaded within the same
   second included, so the cleanup of one job never deletes a file another job
   still has to read *)
C27_StoredPathsDisjoint ==
    \A j \in Slots, k \in Slots :
        j # k => PathsOf(j) \cap PathsOf(k) = {}

(* ---- the files synthesis writes ---- *)

(* the files synthesis wrote for a job that are still on disk *)
WorkFilesOf(j) == {f \in work_files : epdir[j] = Some(f.dir)}

(* every synthesis step of main is over: the clips are loaded, or main has
   returned or raised *)
SynthesisOver(j) == mpc[j] \in {"mix", "raised", "returned"}

(* C28: every file that synthesis writes is deleted after its clip has been
   loaded into memory, on every path of the pipeline: dialogue sections,
   single-voice sections, the custom intro, and runs in which a later step
   raises *)
C28_SynthesisFilesDeleted ==
    \A j \in JobIds : SynthesisOver(j) => WorkFilesOf(j) = {}

(* ---- termination ---- *)

(* C29: every submitted job eventually reaches status completed or failed,
   provided every external call of its worker returns or raises and the
   threads are scheduled fairly; no job stays pending or running forever.
   A job is submitted when it is stored and its worker thread is started *)
C29_EveryJobTerminates ==
    \A j \in JobIds : (Stored(j) /\ wpc[j] # "none") ~> Terminal(j)

C29_Witness ==
    \E j \in JobIds :
        /\ spc[j] = "returned"
        /\ WorkerFinished(j)
        /\ hpc[j] = "done"
        /\ Job(j).status = "completed"

(* ---- the final track ---- *)

(* main leaves the statement that builds the list of sections *)
MixStep(j) == wpc[j] = "in_main" /\ mpc[j] = "mix" /\ mpc'[j] # "mix"

(* C33: the final track contains the sections in the fixed editorial order
   custom intro, main content, numbered segments in ascending number, outro,
   for every number of segments, whatever the order in which their audio was
   produced: once the audio of every section is there, main hands the custom
   intro, the main content, the segments and the outro to mix_segments and a
   final track results *)
C33_FinalTrackInEditorialOrder ==
    [][\A j \in JobIds :
          MixStep(j) =>
              /\ ~IsSet(exc'[j])
              /\ Len(audio_segments') = 3 + Len(scripts[j].segs)
              /\ IsSet(mix'.track)]_vars

(* ---- the working files of two jobs ---- *)

(* the files the section a run of main is working on still has to write,
   read or delete *)
FilesInUse(j) == {tts_todo[j][n].file : n \in 1..Len(tts_todo[j])}

(* C34: two jobs running at the same time never write, read or delete the
   same working file, also when both start within the same minute: the
   synthesis output and the temp-file cleanup of one job cannot overwrite or
   remove a file the other is using, and no job fails on a file that another
   job removed *)
C34_WorkingFilesNotShared ==
    /\ \A j \in Slots, k \in Slots :
           (j # k /\ wpc[j] = "in_main" /\ wpc[k] = "in_main") =>
               FilesInUse(j) \cap FilesInUse(k) = {}
    /\ \A j \in Slots : exc[j] # Some(FileNotFoundText)

====
